---- MODULE Spec2Model ----
(***************************************************************************)
(* A model of the fractal / driz convenience layer over an embedded SQL    *)
(* engine: the type converter, Field and Schema, the Condition builder,    *)
(* and the Collection / Table handles with the engine they talk to.        *)
(*                                                                         *)
(* Python values are records [t |-> <type name>, v |-> <payload>]; a       *)
(* Python dict is a sequence of entries with unique names (dicts keep      *)
(* insertion order); a Python exception is the string naming its class.    *)
(***************************************************************************)
EXTENDS Integers, Sequences, FiniteSets, TLC

VARIABLES
    schema,     \* the Schema object under construction: [lib, fields]
    field,      \* the Field constructed last
    conv,       \* the last type conversion: [dtype, sql, back]
    texists,    \* whether the engine holds the table
    cols,       \* the table's columns in the engine: Seq([name, type])
    sop,        \* the schema-side operation performed last and its outcome
    trace,      \* the engine calls made by the operation performed last
    leaf,       \* three results of leaf predicates: what a, b, c are bound to
    comp,       \* the two groupings of a, b, c composed last
    lib,        \* the handle in use: fractal or driz Collection, Table, KVStore
    tschema,    \* the schema the handle was constructed with
    rows,       \* the table's rows as the connection sees them
    durable,    \* the table's rows as of the last commit
    pending,    \* mutating statements accepted since the last commit
    nkeys,      \* how many keys uuid4 has generated
    returned,   \* the map the last insert returned, while its records are untouched
    last,       \* the data operation performed last: arguments and outcome
    datapage,   \* the table named data of the KVStore: [exists, rows]
    gen         \* the suspended generator of __iter__ and the cursor it shares

svars == <<schema, field, conv, sop>>

evars == <<texists, cols, trace>>

cvars == <<leaf, comp>>

dvars == <<lib, tschema, rows, durable, pending, nkeys, returned, last, datapage, gen>>

vars == <<schema, field, conv, sop, texists, cols, trace, leaf, comp,
          lib, tschema, rows, durable, pending, nkeys, returned, last, datapage, gen>>

-----------------------------------------------------------------------------
(* Bounds *)

MaxArgs == 2          \* fields passed to one Schema(...) or append(...) call
MaxFields == 3        \* user fields a schema holds before append stops
MaxIn == 2            \* values passed to one anyof(...) or noneof(...) call
MaxBatch == 2         \* records passed to one insert(...) call
MaxKeys == 2          \* keys generated before insert stops

-----------------------------------------------------------------------------
(* Generic helpers *)

Range(s) == {s[i] : i \in 1..Len(s)}

SeqsUpTo(S, n) == UNION {[1..k -> S] : k \in 0..n}

\* index of the first element of s satisfying name = n, 0 when there is none
IndexOfName(s, n) ==
    IF \E i \in 1..Len(s) : s[i].name = n
    THEN CHOOSE i \in 1..Len(s) : s[i].name = n /\ \A j \in 1..(i-1) : s[j].name # n
    ELSE 0

NamesOf(s) == [i \in 1..Len(s) |-> s[i].name]

NoDuplicates(s) == \A i, j \in 1..Len(s) : s[i] = s[j] => i = j

-----------------------------------------------------------------------------
(* converter.py *)

\* the type table, in the dict's insertion order
SQLEquivalentTypes ==
    << <<"int", "INTEGER">>, <<"float", "REAL">>, <<"bool", "BOOLEAN">>,
       <<"str", "TEXT">>, <<"bytes", "BLOB">>, <<"datetime", "DATETIME">>,
       <<"date", "DATE">>, <<"time", "TIME">>, <<"timedelta", "TIME">>,
       <<"None", "NULL">> >>

SupportedTypes == {SQLEquivalentTypes[i][1] : i \in 1..Len(SQLEquivalentTypes)}

\* types a caller can pass that are not keys of the table (type(None) is NoneType)
OtherTypes == {"NoneType", "list", "dict"}

PyTypes == SupportedTypes \cup OtherTypes

SqlStrings == {SQLEquivalentTypes[i][2] : i \in 1..Len(SQLEquivalentTypes)}
                  \cup {"UNKNOWN", "VARCHAR", ""}

\* dict.get(dtype, "UNKNOWN")
as_sql_type(dtype) ==
    IF \E i \in 1..Len(SQLEquivalentTypes) : SQLEquivalentTypes[i][1] = dtype
    THEN SQLEquivalentTypes[CHOOSE i \in 1..Len(SQLEquivalentTypes) :
                                SQLEquivalentTypes[i][1] = dtype][2]
    ELSE "UNKNOWN"

\* a from_sql_type that would fall back to str instead of raising
from_sql_type_lenient(sql_type) ==
    IF \E i \in 1..Len(SQLEquivalentTypes) : SQLEquivalentTypes[i][2] = sql_type
    THEN SQLEquivalentTypes[CHOOSE i \in 1..Len(SQLEquivalentTypes) :
                                /\ SQLEquivalentTypes[i][2] = sql_type
                                /\ \A j \in 1..(i-1) : SQLEquivalentTypes[j][2] # sql_type][1]
    ELSE "str"

\* the first key, in insertion order, whose value is sql_type; else ValueError
from_sql_type(sql_type) ==
    IF \E i \in 1..Len(SQLEquivalentTypes) : SQLEquivalentTypes[i][2] = sql_type
    THEN SQLEquivalentTypes[CHOOSE i \in 1..Len(SQLEquivalentTypes) :
                                /\ SQLEquivalentTypes[i][2] = sql_type
                                /\ \A j \in 1..(i-1) : SQLEquivalentTypes[j][2] # sql_type][1]
    ELSE "ValueError"

-----------------------------------------------------------------------------
(* schema.py: Field *)

\* Python truthiness of an optional string argument: None and "" are falsy
Truthy(x) == x # "None" /\ x # ""

ConstraintsOf(nullable, default, unique, check, ref_collection, ref_field, cascade) ==
    (IF unique THEN <<"UNIQUE">> ELSE <<>>)
    \o (IF ~nullable /\ ~unique THEN <<"NOT NULL">> ELSE <<>>)
    \o (IF default # "None" THEN <<"DEFAULT " \o default>> ELSE <<>>)
    \o (IF Truthy(check) THEN <<"CHECK (" \o check \o ")">> ELSE <<>>)
    \o (IF Truthy(ref_collection) /\ Truthy(ref_field)
        THEN <<"REFERENCES " \o ref_collection \o "(" \o ref_field \o ")" \o cascade>>
        ELSE <<>>)

\* fractal.schema.Field.__init__
FractalField(name, dtype, nullable, default, unique, check, ref_collection, ref_field) ==
    [name |-> name, sql_type |-> as_sql_type(dtype),
     constraints |-> ConstraintsOf(nullable, default, unique, check,
                                   ref_collection, ref_field, " ON DELETE CASCADE")]

\* driz.schema.Field.__init__
DrizField(name, dtype, nullable, default, unique, check, ref_collection, ref_field) ==
    [name |-> name, sql_type |-> as_sql_type(dtype),
     constraints |-> ConstraintsOf(nullable, default, unique, check,
                                   ref_collection, ref_field, "")]

\* Field(name, dtype) with every option at its default
PlainField(name, dtype) ==
    FractalField(name, dtype, TRUE, "None", FALSE, "None", "None", "None")

\* primary = Field("key", str); primary.constraints = "PRIMARY KEY " + ...
PrimaryField ==
    [PlainField("key", "str") EXCEPT !.constraints = <<"PRIMARY KEY">> \o @]

\* timestamp = Field("timestamp", datetime, nullable=False)
TimestampField ==
    FractalField("timestamp", "datetime", FALSE, "None", FALSE, "None", "None", "None")

-----------------------------------------------------------------------------
(* schema.py: Schema *)

\* d[f.name] = f on a dict kept as a sequence of entries
DictSet(d, f) ==
    IF IndexOfName(d, f.name) = 0
    THEN Append(d, f)
    ELSE [d EXCEPT ![IndexOfName(d, f.name)] = f]

RECURSIVE DictSetAll(_, _)
DictSetAll(d, fs) ==
    IF fs = <<>> THEN d ELSE DictSetAll(DictSet(d, Head(fs)), Tail(fs))

\* fractal.schema.Schema.__init__: fields is a dict keyed by name
FractalSchema(fields) == DictSetAll(<<PrimaryField, TimestampField>>, fields)

\* fractal.schema.Schema.append
FractalAppend(old, fields) == DictSetAll(old, fields)

\* driz.schema.Schema.__init__: fields is a list
DrizSchema(fields) == <<PrimaryField, TimestampField>> \o fields

\* driz.schema.Schema.append
DrizAppend(old, fields) == old \o fields

\* Schema.resolve_field_type: the dict's entry (fractal), the first match (driz)
resolve_field_type(fields, name) ==
    IF IndexOfName(fields, name) = 0
    THEN "FieldNotFound"
    ELSE fields[IndexOfName(fields, name)].sql_type

HasField(fields, name) == IndexOfName(fields, name) # 0

-----------------------------------------------------------------------------
(* The engine calls an operation makes, in order *)

Call(call, kind, names, ok) ==
    [call |-> call, kind |-> kind, names |-> names, ok |-> ok]

Commit == Call("commit", "COMMIT", {}, TRUE)

MutatingKinds == {"INSERT", "UPDATE", "DELETE", "CREATE", "ALTER", "DROP", "TRUNCATE"}

-----------------------------------------------------------------------------
(* client.py: DB *)

\* the ALTER TABLE ... ADD COLUMN loop of _create_collection over fields[i..];
\* column_map is read once before the loop, the engine sees the live columns
RECURSIVE AddMissing(_, _, _, _)
AddMissing(fields, i, column_map, st) ==
    IF i > Len(fields) \/ st.exc # "none" THEN st
    ELSE IF fields[i].name \in column_map THEN AddMissing(fields, i + 1, column_map, st)
    ELSE IF HasField(st.cols, fields[i].name)
         THEN [st EXCEPT !.exc = "OperationalError",
                         !.trace = Append(@, Call("execute", "ALTER", {fields[i].name}, FALSE))]
         ELSE AddMissing(fields, i + 1, column_map,
                  [st EXCEPT !.cols = Append(@, [name |-> fields[i].name,
                                                 type |-> fields[i].sql_type,
                                                 constraints |-> <<>>]),
                             !.trace = @ \o <<Call("execute", "ALTER", {fields[i].name}, TRUE),
                                              Commit>>])

\* DB._create_collection(schema) on an engine state [texists, cols]
create_collection(fields, ex, cs) ==
    LET names == {fields[i].name : i \in 1..Len(fields)}
        create(ok) == Call("execute", "CREATE", names, ok)
    IN  IF ~ex /\ ~NoDuplicates(NamesOf(fields))
        THEN \* duplicate column name: the CREATE TABLE raises
             [texists |-> FALSE, cols |-> <<>>, exc |-> "OperationalError",
              trace |-> <<create(FALSE)>>]
        ELSE LET cs1 == IF ex THEN cs
                        ELSE [i \in 1..Len(fields) |->
                                 [name |-> fields[i].name, type |-> fields[i].sql_type,
                                  constraints |-> fields[i].constraints]]
             IN  AddMissing(fields, 1, {cs1[i].name : i \in 1..Len(cs1)},
                            [texists |-> TRUE, cols |-> cs1, exc |-> "none",
                             trace |-> <<create(TRUE), Commit>>])

\* the schema DB.collection(name) derives from PRAGMA table_info
IntrospectedSchema(cs) ==
    DrizSchema([i \in 1..Len(cs) |-> PlainField(cs[i].name, from_sql_type(cs[i].type))])

-----------------------------------------------------------------------------
(* query.py, schema.py: Condition.  A clause is kept as its sequence of     *)
(* tokens; a bound value is a string, "None" standing for Python's None.   *)

\* Condition(field, clause, values)
Condition(f, clause, values) ==
    [kind |-> "Condition", field |-> f, clause |-> clause, values |-> values]

\* a bare (clause, values) tuple
PyTuple(clause, values) ==
    [kind |-> "tuple", field |-> "-", clause |-> clause, values |-> values]

\* ', '.join('?' * n)
Placeholders(n) ==
    IF n = 0 THEN <<>> ELSE [i \in 1..(2 * n - 1) |-> IF i % 2 = 1 THEN "?" ELSE ","]

\* a comparison with one bound value: f"{self.field} <op> ?"
Compare(f, op, value) == Condition(f, <<f, op, "?">>, <<value>>)

Cond_eq(f, other) ==
    IF other = "None" THEN Condition(f, <<f, "IS NULL">>, <<>>)
                      ELSE Compare(f, "=", other)

Cond_ne(f, other) ==
    IF other = "None" THEN PyTuple(<<f, "IS NOT NULL">>, <<>>)
                      ELSE Compare(f, "!=", other)

Cond_lt(f, other) == Compare(f, "<", other)

Cond_le(f, other) == Compare(f, "<=", other)

Cond_gt(f, other) == Compare(f, ">", other)

Cond_ge(f, other) == Compare(f, ">=", other)

Cond_startswith(f, prefix) == Compare(f, "LIKE", prefix \o "%")

Cond_endswith(f, suffix) == Compare(f, "LIKE", "%" \o suffix)

\* query.py returns a Condition, the Condition of schema.py returns a tuple
Cond_substring(module, f, infix) ==
    IF module = "query"
    THEN Compare(f, "LIKE", "%" \o infix \o "%")
    ELSE PyTuple(<<f, "LIKE", "?">>, <<"%" \o infix \o "%">>)

Cond_anyof(f, values) ==
    Condition(f, <<f, "IN", "(">> \o Placeholders(Len(values)) \o <<")">>, values)

Cond_noneof(f, values) ==
    Condition(f, <<f, "NOT IN", "(">> \o Placeholders(Len(values)) \o <<")">>, values)

Cond_between(f, start, end) ==
    Condition(f, <<f, "BETWEEN", "?", "AND", "?">>, <<start, end>>)

Cond_isnull(f) == Condition(f, <<f, "IS NULL">>, <<>>)

Cond_notnull(f) == Condition(f, <<f, "IS NOT NULL">>, <<>>)

\* __and__ with a closing parenthesis forgotten
Cond_and_unclosed(a, b) ==
    Condition(a.field \o "&" \o b.field,
              <<"(">> \o a.clause \o <<"AND">> \o b.clause,
              a.values \o b.values)

\* __and__ with the parameter lists joined the other way round
Cond_and_swapped(a, b) ==
    Condition(a.field \o "&" \o b.field,
              <<"(">> \o a.clause \o <<"AND">> \o b.clause \o <<")">>,
              b.values \o a.values)

\* Condition.__and__: the new Condition; self.field is overwritten as well
Cond_and(a, b) ==
    Condition(a.field \o "&" \o b.field,
              <<"(">> \o a.clause \o <<"AND">> \o b.clause \o <<")">>,
              a.values \o b.values)

\* __or__ with the parentheses left out
Cond_or_bare(a, b) ==
    Condition(a.field \o "|" \o b.field,
              a.clause \o <<"OR">> \o b.clause,
              a.values \o b.values)

\* Condition.__or__
Cond_or(a, b) ==
    Condition(a.field \o "|" \o b.field,
              <<"(">> \o a.clause \o <<"OR">> \o b.clause \o <<")">>,
              a.values \o b.values)

Compose(op, a, b) == IF op = "AND" THEN Cond_and(a, b) ELSE Cond_or(a, b)

\* self after self & other or self | other: its field holds the joined name
Renamed(a, x) == [a EXCEPT !.field = x.field]

-----------------------------------------------------------------------------
(* Operations on Condition *)

CondArgs == {"1", "None"}

LeafResults(f) ==
    UNION {
        {Cond_eq(f, v), Cond_ne(f, v), Cond_lt(f, v), Cond_le(f, v), Cond_gt(f, v),
         Cond_ge(f, v), Cond_startswith(f, v), Cond_endswith(f, v),
         Cond_substring("query", f, v), Cond_substring("schema", f, v)} : v \in CondArgs}
    \cup {Cond_anyof(f, [i \in 1..n |-> "1"]) : n \in 0..MaxIn}
    \cup {Cond_noneof(f, [i \in 1..n |-> "1"]) : n \in 0..MaxIn}
    \cup {Cond_between(f, "1", "2"), Cond_isnull(f), Cond_notnull(f)}

SlotField == [a |-> "x", b |-> "y", c |-> "z"]

NoCondition == [kind |-> "unset", field |-> "-", clause |-> <<>>, values |-> <<>>]

NoComp == [op |-> "-", lhs |-> NoCondition, rhs |-> NoCondition]

InitCondSide ==
    /\ leaf = [k \in {"a", "b", "c"} |-> NoCondition]
    /\ comp = NoComp

\* a = condition("x").<predicate>(...), likewise b on "y" and c on "z"
LeafPredicate ==
    \E k \in {"a", "b", "c"} : \E r \in LeafResults(SlotField[k]) :
        /\ leaf' = [leaf EXCEPT ![k] = r]
        /\ comp' = NoComp
        /\ UNCHANGED <<svars, evars, dvars>>

\* (a op b) op c, then a op (b op c), on the objects a, b, c are bound to,
\* each of them as its leaf predicate returned it
Associate ==
    /\ \A k \in {"a", "b", "c"} :
          leaf[k].kind = "Condition" /\ leaf[k].field = SlotField[k]
    /\ \E op \in {"AND", "OR"} :
        LET ab == Compose(op, leaf.a, leaf.b)
            a1 == Renamed(leaf.a, ab)
            lhs == Compose(op, ab, leaf.c)
            bc == Compose(op, leaf.b, leaf.c)
            b1 == Renamed(leaf.b, bc)
            rhs == Compose(op, a1, bc)
            a2 == Renamed(a1, rhs)
        IN  /\ comp' = [op |-> op, lhs |-> lhs, rhs |-> rhs]
            /\ leaf' = [leaf EXCEPT !.a = a2, !.b = b1]
    /\ UNCHANGED <<svars, evars, dvars>>

\* (a op1 b) op2 c, then a op1 (b op2 c), with two different operators
Nest ==
    /\ \A k \in {"a", "b", "c"} :
          leaf[k].kind = "Condition" /\ leaf[k].field = SlotField[k]
    /\ \E op1 \in {"AND", "OR"} :
        LET op2 == IF op1 = "AND" THEN "OR" ELSE "AND"
            ab == Compose(op1, leaf.a, leaf.b)
            a1 == Renamed(leaf.a, ab)
            lhs == Compose(op2, ab, leaf.c)
            bc == Compose(op2, leaf.b, leaf.c)
            b1 == Renamed(leaf.b, bc)
            rhs == Compose(op1, a1, bc)
            a2 == Renamed(a1, rhs)
        IN  /\ comp' = [op |-> op1 \o " " \o op2, lhs |-> lhs, rhs |-> rhs]
            /\ leaf' = [leaf EXCEPT !.a = a2, !.b = b1]
    /\ UNCHANGED <<svars, evars, dvars>>

-----------------------------------------------------------------------------
(* driz/query.py: conditions as strings.  A fragment is kept as its tokens. *)

\* f"NOT {condition}"
negate(condition) == <<"NOT">> \o condition

\* f"{c1} AND {c2}"
both(c1, c2) == c1 \o <<"AND">> \o c2

\* f"{c1} OR {c2}"
either(c1, c2) == c1 \o <<"OR">> \o c2

\* equals(field, value) for a number
equals(f, value) == <<f, "=", value>>

\* gt(field, value)
gt(f, value) == <<f, ">", value>>

\* between(field, start, end)
between(f, start, end) == <<f, "BETWEEN", start, "AND", end>>

\* isnull(field)
isnull(f) == <<f, "IS NULL">>

\* contains(field, value)
contains(f, value) == <<f, "LIKE", "'%" \o value \o "%'">>

\* the fragments a caller builds on one field
Fragments(f) ==
    {equals(f, "1"), gt(f, "1"), between(f, "1", "2"), isnull(f), contains(f, "1")}

\* a string held by a, b or c, or composed of them
Fragment(f, tokens) == [kind |-> "str", field |-> f, clause |-> tokens, values |-> <<>>]

\* a = <leaf function>("x", ...), likewise b on "y" and c on "z"
FragmentLeaf ==
    \E k \in {"a", "b", "c"} : \E r \in Fragments(SlotField[k]) :
        /\ leaf' = [leaf EXCEPT ![k] = Fragment(SlotField[k], r)]
        /\ comp' = NoComp
        /\ UNCHANGED <<svars, evars, dvars>>

\* negate(either(a, b)) and both(either(a, b), c)
FragmentCompose ==
    /\ \A k \in {"a", "b", "c"} : leaf[k].kind = "str"
    /\ comp' = [op |-> "driz",
                lhs |-> Fragment("-", negate(either(leaf.a.clause, leaf.b.clause))),
                rhs |-> Fragment("-", both(either(leaf.a.clause, leaf.b.clause), leaf.c.clause))]
    /\ UNCHANGED <<leaf, svars, evars, dvars>>

-----------------------------------------------------------------------------
(* Python values and what sqlite3 stores for them *)

Val(t, v) == [t |-> t, v |-> v]

PyNone == Val("NoneType", 0)

IsoBase == 1000       \* payloads of the ISO texts of datetimes and dates
NumTextBase == 2000   \* payloads of the texts of numbers
KeyBase == 100        \* payloads of the uuid4 hex strings

\* uuid.uuid4().hex: the n-th key generated
KeyOf(n) == Val("str", KeyBase + n)

\* datetime.datetime.now()
Now == Val("datetime", 0)

\* the value sqlite3 binds for a Python parameter: bool is an int, datetime
\* and date go through the default adapters to ISO text, other classes
\* cannot be bound
Adapt(v) ==
    CASE v.t = "bool" -> Val("int", v.v)
      [] v.t \in {"datetime", "date"} -> Val("str", IsoBase + v.v)
      [] v.t \in {"int", "float", "str", "bytes", "NoneType"} -> v
      [] OTHER -> Val("unbindable", 0)

\* the column's affinity applied on storing: a TEXT column turns a number
\* into its text (the strings of the model do not look like numbers)
Affinity(type, stored) ==
    IF type = "TEXT" /\ stored.t \in {"int", "float"}
    THEN Val("str", NumTextBase + stored.v)
    ELSE stored

\* Python's ==: numbers compare by value across int, bool and float
PyEq(a, b) ==
    IF a.t \in {"int", "bool", "float"} /\ b.t \in {"int", "bool", "float"}
    THEN a.v = b.v
    ELSE a = b

\* a dict entry
Entry(name, value) == [name |-> name, value |-> value]

\* dict equality: the same keys with equal values, whatever the order
DictEq(d1, d2) ==
    /\ {d1[i].name : i \in 1..Len(d1)} = {d2[i].name : i \in 1..Len(d2)}
    /\ \A i \in 1..Len(d1) : \A j \in 1..Len(d2) :
          d1[i].name = d2[j].name => PyEq(d1[i].value, d2[j].value)

-----------------------------------------------------------------------------
(* The engine behind the connection *)

ColNames(cs) == {cs[i].name : i \in 1..Len(cs)}

ColumnOf(cs, name) == cs[IndexOfName(cs, name)]

\* the engine state an operation starts from
Engine ==
    [texists |-> texists, cols |-> cols, rows |-> rows, durable |-> durable,
     pending |-> pending, trace |-> <<>>, exc |-> "none"]

Sent(st, c) == [st EXCEPT !.trace = Append(@, c)]

Failed(st, c, exc) == [st EXCEPT !.trace = Append(@, c), !.exc = exc]

\* connection.commit()
DoCommit(st) ==
    [st EXCEPT !.durable = st.rows, !.pending = 0, !.trace = Append(@, Commit)]

ValueIn(rec, name) == rec[IndexOfName(rec, name)].value

\* the engine's verdict on INSERT INTO t (<names of rec>) VALUES (?, ...)
InsertError(st, rec) ==
    IF ~st.texists THEN "OperationalError"
    ELSE IF \E i \in 1..Len(rec) : rec[i].name \notin ColNames(st.cols)
    THEN "OperationalError"
    ELSE IF \E i \in 1..Len(rec) : Adapt(rec[i].value).t = "unbindable"
    THEN "ProgrammingError"
    ELSE IF \E c \in Range(st.cols) :
              /\ "NOT NULL" \in Range(c.constraints)
              /\ (HasField(rec, c.name) => ValueIn(rec, c.name) = PyNone)
    THEN "IntegrityError"
    ELSE IF \E c \in Range(st.cols) :
              /\ Range(c.constraints) \cap {"PRIMARY KEY", "UNIQUE"} # {}
              /\ HasField(rec, c.name)
              /\ ValueIn(rec, c.name) # PyNone
              /\ \E r \in Range(st.rows) :
                    r[c.name] = Affinity(c.type, Adapt(ValueIn(rec, c.name)))
    THEN "IntegrityError"
    ELSE "none"

\* the row the engine stores: NULL for the columns the statement leaves out
NewRow(cs, rec) ==
    [n \in ColNames(cs) |->
        IF HasField(rec, n) THEN Affinity(ColumnOf(cs, n).type, Adapt(ValueIn(rec, n)))
                            ELSE PyNone]

InsertNames(rec) == {rec[i].name : i \in 1..Len(rec)}

\* one row of an INSERT: rejected, or stored in the open transaction
InsertRow(st, rec) ==
    IF InsertError(st, rec) # "none"
    THEN [st EXCEPT !.exc = InsertError(st, rec)]
    ELSE [st EXCEPT !.rows = Append(@, NewRow(st.cols, rec))]

\* cursor.execute("INSERT INTO ...", values)
ExecInsert(st, rec) ==
    LET st1 == InsertRow(st, rec)
    IN  IF st1.exc # "none"
        THEN Sent(st1, Call("execute", "INSERT", InsertNames(rec), FALSE))
        ELSE Sent([st1 EXCEPT !.pending = @ + 1],
                  Call("execute", "INSERT", InsertNames(rec), TRUE))

\* the row a SELECT * ... WHERE key = ? finds first, as dict(zip(columns, row))
RowAsDict(cs, r) == [i \in 1..Len(cs) |-> Entry(cs[i].name, r[cs[i].name])]

-----------------------------------------------------------------------------
(* collection.py, table.py: insert and fetch *)

\* record["key"] = uuid4().hex; record["timestamp"] = now
Stamp(rec, n) ==
    DictSet(DictSet(rec, Entry("key", KeyOf(n))), Entry("timestamp", Now))

StampAll(records, n0) == [i \in 1..Len(records) |-> Stamp(records[i], n0 + i)]

\* the caller's dicts once every record is stamped: insert writes into them,
\* so arguments that are one and the same dict all show the key written last
Stamped(records, n0, same) ==
    IF same THEN [i \in 1..Len(records) |-> Stamp(records[1], n0 + Len(records))]
    ELSE StampAll(records, n0)

\* {record["key"]: record for record in records}: one entry per key
ReturnedMap(recs) ==
    LET idx == {i \in 1..Len(recs) :
                   \A j \in 1..(i - 1) : ValueIn(recs[j], "key") # ValueIn(recs[i], "key")}
    IN  [k \in 1..Cardinality(idx) |->
            recs[CHOOSE i \in idx : Cardinality({j \in idx : j < i}) = k - 1]]

RECURSIVE ExecInsertEach(_, _, _)
ExecInsertEach(st, recs, i) ==
    IF i > Len(recs) \/ st.exc # "none" THEN st
    ELSE ExecInsertEach(ExecInsert(st, recs[i]), recs, i + 1)

\* insert with its commit forgotten
fractal_insert_uncommitted(st, records, n0) ==
    ExecInsertEach(st, StampAll(records, n0), 1)

\* fractal Collection.insert: one INSERT per record, then one commit
fractal_insert(st, records, n0) ==
    LET st1 == ExecInsertEach(st, StampAll(records, n0), 1)
    IN  IF st1.exc # "none" THEN st1 ELSE DoCommit(st1)

\* the checks of driz Collection.insert on one record, in the record's order
ValidateRecord(fields, rec) ==
    LET bad(i) == \/ ~HasField(fields, rec[i].name)
                  \/ as_sql_type(rec[i].value.t) # resolve_field_type(fields, rec[i].name)
    IN  IF Len(rec) # Len(fields) THEN "ValueError"
        ELSE IF \A i \in 1..Len(rec) : ~bad(i) THEN "none"
        ELSE LET i == CHOOSE k \in 1..Len(rec) : bad(k) /\ \A j \in 1..(k-1) : ~bad(j)
             IN  IF ~HasField(fields, rec[i].name) THEN "ValueError" ELSE "TypeError"

\* the checks of Table.insert on data, in the schema's order
ValidateData(fields, data) ==
    LET bad(i) == \/ ~HasField(data, fields[i].name)
                  \/ as_sql_type(ValueIn(data, fields[i].name).t) # fields[i].sql_type
    IN  IF Len(data) # Len(fields) THEN "ValueError"
        ELSE IF \A i \in 1..Len(fields) : ~bad(i) THEN "none"
        ELSE LET i == CHOOSE k \in 1..Len(fields) : bad(k) /\ \A j \in 1..(k-1) : ~bad(j)
             IN  IF ~HasField(data, fields[i].name) THEN "ValueError" ELSE "TypeError"

\* the exception of the first record the validation loop rejects
RECURSIVE FirstRejection(_, _, _)
FirstRejection(fields, recs, i) ==
    IF i > Len(recs) THEN "none"
    ELSE IF ValidateRecord(fields, recs[i]) # "none" THEN ValidateRecord(fields, recs[i])
    ELSE FirstRejection(fields, recs, i + 1)

\* the tuple executemany binds for a record: its values under records[0]'s keys
BatchRow(rec, first) == [i \in 1..Len(first) |-> Entry(first[i].name, ValueIn(rec, first[i].name))]

RECURSIVE InsertRows(_, _, _)
InsertRows(st, recs, i) ==
    IF i > Len(recs) \/ st.exc # "none" THEN st
    ELSE InsertRows(InsertRow(st, BatchRow(recs[i], recs[1])), recs, i + 1)

\* cursor.executemany("INSERT INTO ...", batch): one statement, a row per record
ExecInsertMany(st, recs) ==
    LET st1 == InsertRows(st, recs, 1)
        ok == st1.exc = "none"
    IN  Sent([st1 EXCEPT !.pending = IF st1.rows # st.rows THEN @ + 1 ELSE @],
             Call("executemany", "INSERT", InsertNames(recs[1]), ok))

\* driz Collection.insert: stamp, validate every record, executemany, commit
driz_insert(st, fields, records, n0, same) ==
    LET recs == Stamped(records, n0, same)
    IN  IF Len(records) = 0 THEN [st EXCEPT !.exc = "IndexError"]
        ELSE IF FirstRejection(fields, recs, 1) # "none"
        THEN [st EXCEPT !.exc = FirstRejection(fields, recs, 1)]
        ELSE LET st1 == ExecInsertMany(st, recs)
             IN  IF st1.exc # "none" THEN st1 ELSE DoCommit(st1)

\* Table.insert(**data): validate, INSERT, commit
table_insert(st, fields, data) ==
    IF ValidateData(fields, data) # "none"
    THEN [st EXCEPT !.exc = ValidateData(fields, data)]
    ELSE LET st1 == ExecInsert(st, data)
         IN  IF st1.exc # "none" THEN st1 ELSE DoCommit(st1)

\* Collection.fetch(key): the first row with that key as a dict, {} for none
fetch(st, key) ==
    LET c == Call("execute", "SELECT", {"key"}, st.texists /\ "key" \in ColNames(st.cols))
        hit == {i \in 1..Len(st.rows) : st.rows[i]["key"] = Adapt(key)}
    IN  IF ~c.ok THEN [st |-> Failed(st, c, "OperationalError"), ret |-> <<>>]
        ELSE IF hit = {} THEN [st |-> Sent(st, c), ret |-> <<>>]
        ELSE [st |-> Sent(st, c),
              ret |-> RowAsDict(st.cols, st.rows[CHOOSE i \in hit : \A j \in hit : i <= j])]

-----------------------------------------------------------------------------
(* collection.py: update, delete, remove_field, drop, clear and the reads *)

\* the rows WHERE key = ? selects
Matching(st, key) == {i \in 1..Len(st.rows) : st.rows[i]["key"] = Adapt(key)}

\* the engine's verdict on UPDATE t SET <names of data> WHERE key = ?
UpdateError(st, key, data) ==
    IF ~st.texists \/ Len(data) = 0 \/ "key" \notin ColNames(st.cols)
    THEN "OperationalError"
    ELSE IF \E i \in 1..Len(data) : data[i].name \notin ColNames(st.cols)
    THEN "OperationalError"
    ELSE IF Adapt(key).t = "unbindable"
              \/ \E i \in 1..Len(data) : Adapt(data[i].value).t = "unbindable"
    THEN "ProgrammingError"
    ELSE IF /\ Matching(st, key) # {}
            /\ \E c \in Range(st.cols) :
                  /\ "NOT NULL" \in Range(c.constraints)
                  /\ HasField(data, c.name)
                  /\ ValueIn(data, c.name) = PyNone
    THEN "IntegrityError"
    ELSE IF \E c \in Range(st.cols) :
              /\ Range(c.constraints) \cap {"PRIMARY KEY", "UNIQUE"} # {}
              /\ HasField(data, c.name)
              /\ ValueIn(data, c.name) # PyNone
              /\ \E i \in Matching(st, key) : \E j \in 1..Len(st.rows) :
                    /\ j # i
                    /\ st.rows[j][c.name] = Affinity(c.type, Adapt(ValueIn(data, c.name)))
    THEN "IntegrityError"
    ELSE "none"

\* a row after SET: the named columns hold the bound values
UpdatedRow(cs, r, data) ==
    [n \in DOMAIN r |->
        IF HasField(data, n) THEN Affinity(ColumnOf(cs, n).type, Adapt(ValueIn(data, n)))
                             ELSE r[n]]

\* cursor.execute("UPDATE ... SET ... WHERE key = ?", args)
ExecUpdate(st, key, data) ==
    LET c(ok) == Call("execute", "UPDATE", InsertNames(data) \cup {"key"}, ok)
    IN  IF UpdateError(st, key, data) # "none"
        THEN Failed(st, c(FALSE), UpdateError(st, key, data))
        ELSE Sent([st EXCEPT !.rows = [i \in 1..Len(st.rows) |->
                                          IF i \in Matching(st, key)
                                          THEN UpdatedRow(st.cols, st.rows[i], data)
                                          ELSE st.rows[i]],
                             !.pending = @ + 1],
                  c(TRUE))

\* fractal Collection.update: no check of data, UPDATE, commit
fractal_update(st, key, data) ==
    LET st1 == ExecUpdate(st, key, data)
    IN  IF st1.exc # "none" THEN st1 ELSE DoCommit(st1)

\* driz Collection.update: the first pass of the loop evaluates
\* self.schema.fields.items().get(name), and neither a dict's items() nor a
\* list has a get; with no data the loop is skipped and the UPDATE is sent
driz_update(st, key, data) ==
    IF Len(data) > 0 THEN [st EXCEPT !.exc = "AttributeError"]
    ELSE LET st1 == ExecUpdate(st, key, data)
         IN  IF st1.exc # "none" THEN st1 ELSE DoCommit(st1)

\* Collection.delete(key): DELETE ... WHERE key = ?, commit
delete(st, key) ==
    LET c(ok) == Call("execute", "DELETE", {"key"}, ok)
        keep == {i \in 1..Len(st.rows) : i \notin Matching(st, key)}
    IN  IF ~st.texists \/ "key" \notin ColNames(st.cols)
        THEN Failed(st, c(FALSE), "OperationalError")
        ELSE IF Adapt(key).t = "unbindable"
        THEN Failed(st, c(FALSE), "ProgrammingError")
        ELSE DoCommit(Sent([st EXCEPT !.rows = SelectSeq(st.rows,
                                                 LAMBDA r : r["key"] # Adapt(key)),
                                      !.pending = @ + 1],
                           c(TRUE)))

\* whether the engine refuses ALTER TABLE t DROP COLUMN f: no such column, a
\* PRIMARY KEY or UNIQUE column, or the table's only column
DropColumnRefused(st, f) ==
    \/ ~st.texists
    \/ f \notin ColNames(st.cols)
    \/ Range(ColumnOf(st.cols, f).constraints) \cap {"PRIMARY KEY", "UNIQUE"} # {}
    \/ Len(st.cols) = 1

\* Collection.remove_field(field): ALTER TABLE ... DROP COLUMN, commit; the
\* engine's OperationalError is raised again as FieldNotFound
remove_field(st, f) ==
    LET c(ok) == Call("execute", "ALTER", {f}, ok)
    IN  IF DropColumnRefused(st, f)
        THEN Failed(st, c(FALSE), "FieldNotFound")
        ELSE DoCommit(Sent(
                 [st EXCEPT !.cols = SelectSeq(st.cols, LAMBDA col : col.name # f),
                            !.rows = [i \in 1..Len(st.rows) |->
                                         [n \in (DOMAIN st.rows[i]) \ {f} |-> st.rows[i][n]]],
                            !.pending = @ + 1],
                 c(TRUE)))

\* Collection.drop(confirm): nothing unless confirm; DROP TABLE IF EXISTS, commit
drop(st, confirm) ==
    IF ~confirm THEN st
    ELSE DoCommit(Sent([st EXCEPT !.texists = FALSE, !.cols = <<>>, !.rows = <<>>,
                                  !.pending = @ + 1],
                       Call("execute", "DROP", {}, TRUE)))

\* Collection.clear(): TRUNCATE TABLE is not a statement of the engine
clear(st) == Failed(st, Call("execute", "TRUNCATE", {}, FALSE), "OperationalError")

\* Collection.count(): SELECT COUNT(*)
count(st) ==
    LET c == Call("execute", "SELECT", {}, st.texists)
    IN  IF c.ok THEN [st |-> Sent(st, c), ret |-> Len(st.rows)]
        ELSE [st |-> Failed(st, c, "OperationalError"), ret |-> 0]

\* a SELECT whose text holds the caller's field names
select(st, names) ==
    LET c == Call("execute", "SELECT", names, st.texists /\ names \subseteq ColNames(st.cols))
    IN  IF c.ok THEN Sent(st, c) ELSE Failed(st, c, "OperationalError")

\* Collection.order_by(*fields): ValueError for no field
order_by(st, fields) ==
    IF Len(fields) = 0 THEN [st EXCEPT !.exc = "ValueError"]
    ELSE select(st, Range(fields))

\* Collection.join(field, other, on) with the collection itself as other:
\* FROM t JOIN t leaves every column name ambiguous
join(st, f, on) ==
    Failed(st, Call("execute", "SELECT", {f, on}, FALSE), "OperationalError")

\* Collection.query(*picks).where(condition): a tuple has no clause
where(st, picks, cond) ==
    IF cond.kind # "Condition" THEN [st EXCEPT !.exc = "AttributeError"]
    ELSE select(st, Range(picks) \cup {cond.field})

\* DB.collection(name, schema=S) on the engine the handle talks to: columns
\* added by ALTER TABLE hold NULL in the rows there are
open_collection(st, fields) ==
    LET r == create_collection(fields, st.texists, st.cols)
        committed == Commit \in Range(r.trace)
        rows1 == [i \in 1..Len(st.rows) |->
                     [n \in ColNames(r.cols) |->
                         IF n \in DOMAIN st.rows[i] THEN st.rows[i][n] ELSE PyNone]]
    IN  [texists |-> r.texists, cols |-> r.cols, rows |-> rows1,
         durable |-> IF committed THEN rows1 ELSE st.durable,
         pending |-> IF committed THEN 0 ELSE st.pending,
         trace |-> r.trace, exc |-> r.exc]

-----------------------------------------------------------------------------
(* kvclient.py: KVStore and Page *)

\* the columns KVStore.page(name) creates
PageCols ==
    <<[name |-> "id", type |-> "INTEGER", constraints |-> <<"PRIMARY KEY", "AUTOINCREMENT">>],
      [name |-> "timestamp", type |-> "DATETIME", constraints |-> <<"DEFAULT CURRENT_TIMESTAMP">>],
      [name |-> "data", type |-> "TEXT", constraints |-> <<"NOT NULL">>]>>

\* json.dumps raises TypeError for a value that is no JSON type
JsonSerializable(d) ==
    \A i \in 1..Len(d) : d[i].value.t \in {"int", "float", "bool", "str", "NoneType", "tuple", "list"}

\* a json.dumps that would write null for every value
json_dumps_null(d) ==
    [json |-> [i \in 1..Len(d) |-> Entry(d[i].name, PyNone)]]

\* json.dumps(d): the text, kept as the entries it spells; a tuple is
\* written as an array
json_dumps(d) ==
    [json |-> [i \in 1..Len(d) |->
                  Entry(d[i].name, IF d[i].value.t = "tuple" THEN Val("list", d[i].value.v)
                                                             ELSE d[i].value)]]

\* json.loads(text)
json_loads(text) == text.json

\* the row of a page with that id, 0 when there is none
PageRow(st, key) ==
    IF \E i \in 1..Len(st.rows) : st.rows[i].id = key
    THEN CHOOSE i \in 1..Len(st.rows) : st.rows[i].id = key
    ELSE 0

\* Page.put(**data): INSERT INTO page (data) VALUES (json), commit; n ids
\* have been handed out by AUTOINCREMENT, timestamp defaults to the engine's
\* CURRENT_TIMESTAMP text
page_put(st, data, n) ==
    LET c(ok) == Call("execute", "INSERT", {"data"}, ok)
    IN  IF ~JsonSerializable(data) THEN [st EXCEPT !.exc = "TypeError"]
        ELSE IF ~st.texists THEN Failed(st, c(FALSE), "OperationalError")
        ELSE DoCommit(Sent([st EXCEPT !.rows = Append(@, [id |-> n + 1, timestamp |-> Val("str", IsoBase),
                                                          data |-> json_dumps(data)]),
                                      !.pending = @ + 1],
                           c(TRUE)))

\* Page.update(key, **data): merge into the stored data, or put when no row
\* has that id
page_update(st, key, data, n) ==
    LET sel == Call("execute", "SELECT", {"data", "id"}, st.texists)
        upd == Call("execute", "UPDATE", {"data", "id"}, TRUE)
        i == PageRow(st, key)
        merged == DictSetAll(json_loads(st.rows[i].data), data)
    IN  IF ~st.texists THEN Failed(st, sel, "OperationalError")
        ELSE IF i = 0 THEN page_put(Sent(st, sel), data, n)
        ELSE IF ~JsonSerializable(merged) THEN [Sent(st, sel) EXCEPT !.exc = "TypeError"]
        ELSE DoCommit(Sent([Sent(st, sel) EXCEPT !.rows[i].data = json_dumps(merged),
                                                 !.pending = @ + 1],
                           upd))

\* Page.get(key): the parsed data, None when no row has that id
page_get(st, key) ==
    LET sel == Call("execute", "SELECT", {"data", "id"}, st.texists)
        i == PageRow(st, key)
    IN  IF ~st.texists THEN [st |-> Failed(st, sel, "OperationalError"), ret |-> <<>>, found |-> FALSE]
        ELSE IF i = 0 THEN [st |-> Sent(st, sel), ret |-> <<>>, found |-> FALSE]
        ELSE [st |-> Sent(st, sel), ret |-> json_loads(st.rows[i].data), found |-> TRUE]

\* one item of the conditions dict: a plain value, or a tuple (operator, val)
Cond1(name, tuple, operator, val) ==
    [name |-> name, tuple |-> tuple, operator |-> operator, val |-> val]

\* json_extract(data, '$.<name>'): NULL when the path is absent; true and
\* false come out as 1 and 0
json_extract(d, name) ==
    IF \E i \in 1..Len(d) : d[i].name = name
    THEN LET v == ValueIn(d, name)
         IN  IF v.t = "bool" THEN Val("int", v.v) ELSE v
    ELSE PyNone

\* the engine's x <operator> v: never true on NULL; a number sorts before a text
SqlCompare(x, operator, v) ==
    LET num(a) == a.t \in {"int", "float"}
    IN  IF x.t = "NoneType" \/ v.t = "NoneType" THEN FALSE
        ELSE IF num(x) /\ num(v)
             THEN IF operator = ">" THEN x.v > v.v ELSE x.v = v.v
        ELSE IF num(v) THEN operator = ">"
        ELSE IF num(x) THEN FALSE
        ELSE IF operator = ">" THEN x.v > v.v ELSE x = v

\* the WHERE clause of query_by_conditions on one row: the clauses joined
\* with AND, "=" for a condition that is no tuple
Satisfies(row, conditions) ==
    \A k \in 1..Len(conditions) :
        LET c == conditions[k]
            operator == IF c.tuple THEN c.operator ELSE "="
        IN  SqlCompare(json_extract(json_loads(row.data), c.name), operator, Adapt(c.val))

\* Page.query_by_conditions(conditions): SELECT id, data FROM data WHERE ...;
\* the statement names the table data, whatever the page is called
query_by_conditions(st, data, conditions) ==
    LET names == {"id", "data"} \cup {conditions[k].name : k \in 1..Len(conditions)}
        sel(ok) == Call("execute", "SELECT", names, ok)
        hits == SelectSeq(data.rows, LAMBDA r : Satisfies(r, conditions))
    IN  IF conditions = <<>> \/ ~data.exists
        THEN [st |-> Failed(st, sel(FALSE), "OperationalError"), ret |-> <<>>]
        ELSE [st |-> Sent(st, sel(TRUE)),
              ret |-> [i \in 1..Len(hits) |-> [id |-> hits[i].id, data |-> json_loads(hits[i].data)]]]

\* KVStore.page("data"): CREATE TABLE IF NOT EXISTS data (...), commit
store_page(st, data) ==
    [st |-> DoCommit(Sent(st, Call("execute", "CREATE", ColNames(PageCols), TRUE))),
     data |-> [data EXCEPT !.exists = TRUE]]

-----------------------------------------------------------------------------
(* Inputs and state of the data operations *)

S1 == Val("str", 1)

I1 == Val("int", 1)

\* the schema the collection is declared with: Schema(Field("name", str), Field("age", int))
CollFields == <<PlainField("name", "str"), PlainField("age", "int")>>

\* a Table schema whose caller declares a field named key
KeyedFields == <<PlainField("key", "str"), PlainField("name", "str")>>

\* the records a caller passes to Collection.insert
UserRecords ==
    {<<Entry("name", S1), Entry("age", I1)>>,
     <<Entry("name", S1), Entry("age", Val("bool", 1))>>,
     <<Entry("name", S1)>>,
     <<Entry("name", S1), Entry("bogus", I1)>>,
     <<Entry("age", S1), Entry("bogus", I1)>>,
     <<Entry("name", S1), Entry("age", PyNone)>>,
     <<Entry("key", S1), Entry("name", S1), Entry("age", I1)>>}

\* the keyword arguments a caller passes to Table.insert
UserData ==
    {<<Entry("key", KeyOf(k)), Entry("timestamp", Now), Entry("name", S1), Entry("age", I1)>>
        : k \in 1..MaxKeys}
    \cup {<<Entry("key", KeyOf(1)), Entry("timestamp", Now), Entry("name", S1), Entry("bogus", I1)>>,
          <<Entry("key", KeyOf(1)), Entry("timestamp", Now), Entry("age", S1), Entry("bogus", I1)>>,
          <<Entry("key", KeyOf(1)), Entry("timestamp", Now), Entry("name", I1), Entry("age", I1)>>,
          <<Entry("key", KeyOf(1)), Entry("timestamp", Now), Entry("name", S1)>>}

\* the keyword arguments a caller passes to Collection.update
UpdateData ==
    {<<Entry("name", Val("str", 2))>>,
     <<Entry("age", Val("bool", 1))>>,
     <<Entry("timestamp", Now)>>,
     <<Entry("bogus", I1)>>,
     <<>>}

\* the field names a caller passes to the reads and to remove_field
CallerNames == {"name", "bogus"}

\* the conditions a caller passes to where()
CallerConditions == {Cond_eq("name", "1"), Cond_eq("bogus", "1"), Cond_ne("name", "None")}

\* the keyword arguments a caller passes to Page.put and Page.update
PageData ==
    {<<Entry("a", I1)>>,
     <<Entry("b", Val("tuple", 1))>>,
     <<Entry("a", Now)>>,
     <<>>}

\* the conditions a caller queries a page with
PageConditions ==
    {<<Cond1("a", FALSE, "-", I1)>>,
     <<Cond1("a", TRUE, ">", I1)>>,
     <<Cond1("a", FALSE, "-", I1), Cond1("b", TRUE, ">", I1)>>,
     <<>>}

\* no generator is suspended
NoGenerator == [active |-> FALSE, rest |-> <<>>, cols |-> <<>>, description |-> <<>>]

\* [column[0] for column in cursor.description] after SELECT *
ColumnNames(cs) == [i \in 1..Len(cs) |-> cs[i].name]

\* cursor.description is None
NoDescription == <<"None">>

\* the cursor the operations share with a suspended generator: every execute
\* and executemany resets description, a SELECT that succeeds sets it to the
\* columns it selected
AfterCalls(calls, selected) ==
    LET sent == SelectSeq(calls, LAMBDA c : c.call \in {"execute", "executemany"})
        c == sent[Len(sent)]
    IN  IF ~gen.active \/ sent = <<>> THEN gen
        ELSE [gen EXCEPT !.description = IF c.kind = "SELECT" /\ c.ok THEN selected
                                                                     ELSE NoDescription]

\* the column SELECT AVG(f), SUM(f), MIN(f) or MAX(f) returns
AggregateColumn(fn, f) ==
    (CASE fn = "avg" -> "AVG(" [] fn = "sum" -> "SUM(" [] fn = "min" -> "MIN(" [] OTHER -> "MAX(")
        \o f \o ")"

\* dict(zip([column[0] for column in self.cursor.description], row))
ZipRow(description, cs, row) ==
    LET n == IF Len(description) < Len(cs) THEN Len(description) ELSE Len(cs)
    IN  [i \in 1..n |-> Entry(description[i], row[cs[i].name])]

NoLast == [op |-> "init", exc |-> "none", ret |-> <<>>, arg |-> <<>>]

\* DB(path).collection("t", schema=Schema(*CollFields)) has created the table;
\* the handle is a fractal or driz Collection, or a Table on one of two schemas,
\* or the Page that KVStore().page("t") returned
InitDataSide ==
    /\ lib \in {"fractal", "driz", "table", "kv"}
    /\ tschema \in IF lib \in {"fractal", "driz"} THEN {FractalSchema(CollFields)}
                   ELSE IF lib = "table" THEN {DrizSchema(CollFields), DrizSchema(KeyedFields)}
                   ELSE {<<>>}
    /\ rows = <<>>
    /\ durable = <<>>
    /\ pending = 0
    /\ nkeys = 0
    /\ returned = <<>>
    /\ last = NoLast
    /\ datapage = [exists |-> FALSE, rows |-> <<>>]
    /\ gen = NoGenerator

InitTable ==
    LET r == create_collection(DrizSchema(CollFields), FALSE, <<>>)
    IN  /\ texists = TRUE
        /\ cols = IF lib = "kv" THEN PageCols ELSE r.cols
        /\ trace = <<>>

\* what an operation leaves in the engine
Apply(st) ==
    /\ texists' = st.texists
    /\ cols' = st.cols
    /\ rows' = st.rows
    /\ durable' = st.durable
    /\ pending' = st.pending
    /\ trace' = st.trace

\* the records of an insert(...) call with several records
BatchRecords ==
    {<<Entry("name", S1), Entry("age", I1)>>,
     <<Entry("name", S1), Entry("age", Val("bool", 1))>>,
     <<Entry("name", S1), Entry("bogus", I1)>>}

\* insert(), insert(r) for every record, insert(r1, ..., rn)
Batches ==
    {<<>>} \cup {<<r>> : r \in UserRecords}
        \cup UNION {[1..k -> BatchRecords] : k \in 2..MaxBatch}

\* collection.insert(*records); same: the arguments are one and the same dict
Insert ==
    /\ lib \in {"fractal", "driz"}
    /\ \E records \in Batches, same \in BOOLEAN :
        /\ nkeys + Len(records) <= MaxKeys
        /\ same => (Len(records) >= 2 /\ \A i \in 1..Len(records) : records[i] = records[1])
        /\ LET st == IF lib = "fractal" THEN fractal_insert(Engine, records, nkeys)
                                        ELSE driz_insert(Engine, tschema, records, nkeys, same)
               ret == IF st.exc = "none" THEN ReturnedMap(Stamped(records, nkeys, same))
                                         ELSE <<>>
           IN  /\ Apply(st)
               /\ gen' = AfterCalls(st.trace, <<>>)
               /\ nkeys' = nkeys + Len(records)
               /\ returned' = ret
               /\ last' = [op |-> "insert", exc |-> st.exc, ret |-> ret,
                           arg |-> Stamped(records, nkeys, same), before |-> rows]
    /\ UNCHANGED <<svars, cvars, lib, tschema, datapage>>

\* table.insert(**data)
TableInsert ==
    /\ lib = "table"
    /\ \E data \in UserData :
        LET st == table_insert(Engine, tschema, data)
        IN  /\ Apply(st)
            /\ gen' = AfterCalls(st.trace, <<>>)
            /\ last' = [op |-> "insert", exc |-> st.exc, ret |-> <<>>, arg |-> <<data>>]
    /\ UNCHANGED <<svars, cvars, lib, tschema, datapage, nkeys, returned>>

\* collection.fetch(key)
Fetch ==
    /\ lib \in {"fractal", "driz"}
    /\ \E k \in 1..MaxKeys :
        LET r == fetch(Engine, KeyOf(k))
        IN  /\ Apply(r.st)
            /\ gen' = AfterCalls(r.st.trace, ColumnNames(cols))
            /\ last' = [op |-> "fetch", exc |-> r.st.exc, ret |-> r.ret, arg |-> <<KeyOf(k)>>]
    /\ UNCHANGED <<svars, cvars, lib, tschema, datapage, nkeys, returned>>

\* collection.update(key, **data)
Update ==
    /\ lib \in {"fractal", "driz"}
    /\ \E k \in 1..MaxKeys, data \in UpdateData :
        LET st == IF lib = "fractal" THEN fractal_update(Engine, KeyOf(k), data)
                                     ELSE driz_update(Engine, KeyOf(k), data)
        IN  /\ Apply(st)
            /\ gen' = AfterCalls(st.trace, <<>>)
            /\ returned' = <<>>
            /\ last' = [op |-> "update", exc |-> st.exc, ret |-> <<>>,
                        arg |-> <<KeyOf(k), data>>, before |-> rows]
    /\ UNCHANGED <<svars, cvars, lib, tschema, datapage, nkeys>>

\* collection.delete(key)
Delete ==
    /\ lib \in {"fractal", "driz"}
    /\ \E k \in 1..MaxKeys :
        LET st == delete(Engine, KeyOf(k))
        IN  /\ Apply(st)
            /\ gen' = AfterCalls(st.trace, <<>>)
            /\ returned' = <<>>
            /\ last' = [op |-> "delete", exc |-> st.exc, ret |-> <<>>, arg |-> <<KeyOf(k)>>]
    /\ UNCHANGED <<svars, cvars, lib, tschema, datapage, nkeys>>

\* collection.remove_field(field)
RemoveField ==
    /\ lib \in {"fractal", "driz"}
    /\ \E f \in CallerNames \cup {"key"} :
        LET st == remove_field(Engine, f)
        IN  /\ Apply(st)
            /\ gen' = AfterCalls(st.trace, <<>>)
            /\ returned' = <<>>
            /\ last' = [op |-> "remove_field", exc |-> st.exc, ret |-> <<>>, arg |-> <<f>>,
                        before |-> rows, cols |-> cols]
    /\ UNCHANGED <<svars, cvars, lib, tschema, datapage, nkeys>>

\* collection.count()
Count ==
    /\ lib \in {"fractal", "driz"}
    /\ LET r == count(Engine)
       IN  /\ Apply(r.st)
           /\ gen' = AfterCalls(r.st.trace, <<"COUNT(*)">>)
           /\ last' = [op |-> "count", exc |-> r.st.exc, ret |-> <<r.ret>>, arg |-> <<>>]
    /\ UNCHANGED <<svars, cvars, lib, tschema, datapage, nkeys, returned>>

\* collection.clear()
Clear ==
    /\ lib \in {"fractal", "driz"}
    /\ LET st == clear(Engine)
       IN  /\ Apply(st)
           /\ gen' = AfterCalls(st.trace, <<>>)
           /\ last' = [op |-> "clear", exc |-> st.exc, ret |-> <<>>, arg |-> <<>>]
    /\ UNCHANGED <<svars, cvars, lib, tschema, datapage, nkeys, returned>>

\* DB.collection("t", schema=S) once more, with the schema of the handle
OpenCollection ==
    /\ lib \in {"fractal", "driz"}
    /\ LET st == open_collection(Engine, tschema)
       IN  /\ Apply(st)
           /\ returned' = <<>>
           /\ last' = [op |-> "collection", exc |-> st.exc, ret |-> <<>>, arg |-> <<>>]
    /\ UNCHANGED <<svars, cvars, lib, tschema, datapage, gen, nkeys>>

\* collection.distinct(field)
Distinct ==
    /\ lib \in {"fractal", "driz"}
    /\ \E f \in CallerNames :
        LET st == select(Engine, {f})
        IN  /\ Apply(st)
            /\ gen' = AfterCalls(st.trace, <<f>>)
            /\ last' = [op |-> "distinct", exc |-> st.exc, ret |-> <<>>, arg |-> <<f>>]
    /\ UNCHANGED <<svars, cvars, lib, tschema, datapage, nkeys, returned>>

\* collection.order_by(*fields)
OrderBy ==
    /\ lib \in {"fractal", "driz"}
    /\ \E fs \in SeqsUpTo(CallerNames, 1) :
        LET st == order_by(Engine, fs)
        IN  /\ Apply(st)
            /\ gen' = AfterCalls(st.trace, ColumnNames(cols))
            /\ last' = [op |-> "order_by", exc |-> st.exc, ret |-> <<>>, arg |-> fs]
    /\ UNCHANGED <<svars, cvars, lib, tschema, datapage, nkeys, returned>>

\* collection.avg(field), sum(field), min(field), max(field)
Aggregate ==
    /\ lib \in {"fractal", "driz"}
    /\ \E fn \in {"avg", "sum", "min", "max"}, f \in CallerNames :
        LET st == select(Engine, {f})
        IN  /\ Apply(st)
            /\ gen' = AfterCalls(st.trace, <<AggregateColumn(fn, f)>>)
            /\ last' = [op |-> fn, exc |-> st.exc, ret |-> <<>>, arg |-> <<f>>]
    /\ UNCHANGED <<svars, cvars, lib, tschema, datapage, nkeys, returned>>

\* collection.join(field, collection, on)
Join ==
    /\ lib \in {"fractal", "driz"}
    /\ \E f \in CallerNames, on \in CallerNames :
        LET st == join(Engine, f, on)
        IN  /\ Apply(st)
            /\ gen' = AfterCalls(st.trace, <<>>)
            /\ last' = [op |-> "join", exc |-> st.exc, ret |-> <<>>, arg |-> <<f, on>>]
    /\ UNCHANGED <<svars, cvars, lib, tschema, datapage, nkeys, returned>>

\* collection.query(*picks).where(condition)
QueryWhere ==
    /\ lib = "fractal"
    /\ \E picks \in SeqsUpTo(CallerNames, 1), cond \in CallerConditions :
        LET st == where(Engine, picks, cond)
        IN  /\ Apply(st)
            /\ gen' = AfterCalls(st.trace, IF picks = <<>> THEN ColumnNames(cols) ELSE picks)
            /\ last' = [op |-> "query", exc |-> st.exc, ret |-> <<>>,
                        arg |-> <<picks, cond.clause>>]
    /\ UNCHANGED <<svars, cvars, lib, tschema, datapage, nkeys, returned>>

\* page.put(**data)
PagePut ==
    /\ lib = "kv"
    /\ nkeys < MaxKeys
    /\ \E data \in PageData :
        LET st == page_put(Engine, data, nkeys)
        IN  /\ Apply(st)
            /\ nkeys' = IF st.exc = "none" THEN nkeys + 1 ELSE nkeys
            /\ last' = [op |-> "put", exc |-> st.exc, ret |-> <<nkeys + 1>>, arg |-> <<data>>,
                        before |-> rows]
    /\ UNCHANGED <<svars, cvars, lib, tschema, datapage, gen, returned>>

\* page.update(key, **data)
PageUpdate ==
    /\ lib = "kv"
    /\ \E key \in 1..MaxKeys, data \in PageData :
        /\ PageRow(Engine, key) = 0 => nkeys < MaxKeys
        /\ LET st == page_update(Engine, key, data, nkeys)
               put == PageRow(Engine, key) = 0 /\ st.exc = "none"
           IN  /\ Apply(st)
               /\ nkeys' = IF put THEN nkeys + 1 ELSE nkeys
               /\ last' = [op |-> "page_update", exc |-> st.exc,
                           ret |-> <<IF put THEN nkeys + 1 ELSE key>>, arg |-> <<key, data>>,
                           before |-> rows]
    /\ UNCHANGED <<svars, cvars, lib, tschema, datapage, gen, returned>>

\* page.get(key)
PageGet ==
    /\ lib = "kv"
    /\ \E key \in 1..MaxKeys :
        LET r == page_get(Engine, key)
        IN  /\ Apply(r.st)
            /\ last' = [op |-> "get", exc |-> r.st.exc, ret |-> r.ret, arg |-> <<key>>,
                        found |-> r.found]
    /\ UNCHANGED <<svars, cvars, lib, tschema, datapage, gen, nkeys, returned>>

\* store.page("data"), a second page of the same KVStore
StorePage ==
    /\ lib = "kv"
    /\ LET r == store_page(Engine, datapage)
       IN  /\ datapage' = r.data
           /\ trace' = r.st.trace
           /\ last' = [op |-> "page", exc |-> "none", ret |-> <<>>, arg |-> <<>>]
    /\ UNCHANGED <<svars, cvars, texists, cols, rows, durable, pending,
                   lib, tschema, nkeys, returned, gen>>

\* store.page("data").put(**data)
DataPagePut ==
    /\ lib = "kv"
    /\ datapage.exists
    /\ Len(datapage.rows) < MaxKeys
    /\ LET st == page_put([Engine EXCEPT !.rows = datapage.rows], <<Entry("a", I1)>>,
                          Len(datapage.rows))
       IN  /\ datapage' = [datapage EXCEPT !.rows = st.rows]
           /\ trace' = st.trace
           /\ last' = [op |-> "data_put", exc |-> st.exc, ret |-> <<Len(st.rows)>>, arg |-> <<>>]
    /\ UNCHANGED <<svars, cvars, texists, cols, rows, durable, pending,
                   lib, tschema, nkeys, returned, gen>>

\* page.query_by_conditions(conditions)
PageQuery ==
    /\ lib = "kv"
    /\ \E conditions \in PageConditions :
        LET r == query_by_conditions(Engine, datapage, conditions)
        IN  /\ Apply(r.st)
            /\ last' = [op |-> "query", exc |-> r.st.exc, ret |-> r.ret, arg |-> <<conditions>>]
    /\ UNCHANGED <<svars, cvars, lib, tschema, datapage, gen, nkeys, returned>>

\* iter(collection) and the first next(): SELECT *, fetchall(), and the
\* first row is yielded
IterStart ==
    /\ lib \in {"fractal", "driz", "table"}
    /\ ~gen.active
    /\ LET st == select(Engine, {})
           item == ZipRow(ColumnNames(cols), cols, rows[1])
       IN  /\ Apply(st)
           /\ IF st.exc # "none"
              THEN /\ gen' = NoGenerator
                   /\ last' = [op |-> "next", exc |-> st.exc, ret |-> <<>>, arg |-> <<>>]
              ELSE IF rows = <<>>
              THEN /\ gen' = NoGenerator
                   /\ last' = [op |-> "next", exc |-> "StopIteration", ret |-> <<>>, arg |-> <<>>]
              ELSE /\ gen' = [active |-> TRUE, rest |-> Tail(rows), cols |-> cols,
                              description |-> ColumnNames(cols)]
                   /\ last' = [op |-> "next", exc |-> "none", ret |-> item,
                               arg |-> RowAsDict(cols, rows[1])]
    /\ UNCHANGED <<svars, cvars, lib, tschema, datapage, nkeys, returned>>

\* next() on the suspended generator: the loop takes the next row of the
\* list fetchall() returned and reads self.cursor.description again
IterNext ==
    /\ gen.active
    /\ IF gen.rest = <<>>
       THEN /\ gen' = NoGenerator
            /\ last' = [op |-> "next", exc |-> "StopIteration", ret |-> <<>>, arg |-> <<>>]
       ELSE IF gen.description = NoDescription
       THEN /\ gen' = NoGenerator
            /\ last' = [op |-> "next", exc |-> "TypeError", ret |-> <<>>,
                        arg |-> RowAsDict(gen.cols, Head(gen.rest))]
       ELSE /\ gen' = [gen EXCEPT !.rest = Tail(@)]
            /\ last' = [op |-> "next", exc |-> "none",
                        ret |-> ZipRow(gen.description, gen.cols, Head(gen.rest)),
                        arg |-> RowAsDict(gen.cols, Head(gen.rest))]
    /\ trace' = <<>>
    /\ UNCHANGED <<svars, cvars, texists, cols, rows, durable, pending,
                   lib, tschema, datapage, nkeys, returned>>

-----------------------------------------------------------------------------
(* Inputs of the schema-side operations *)

\* the fields a caller declares: two of them reuse the implicit names
UserFields ==
    {PlainField("key", "int"), PlainField("timestamp", "str"),
     PlainField("name", "str"), PlainField("name", "int")}

OptStrings == {"None", "", "x"}

NoField == [name |-> "-", sql_type |-> "-", constraints |-> <<>>]

NoConv == [dtype |-> "-", sql |-> "-", back |-> "-"]

NoOp == [op |-> "init", exc |-> "none"]

InitSchemaSide ==
    /\ schema = [lib |-> "none", fields |-> <<>>]
    /\ field = NoField
    /\ conv = NoConv
    /\ sop = NoOp

InitEngineSide ==
    /\ texists = FALSE
    /\ cols = <<>>
    /\ trace = <<>>

-----------------------------------------------------------------------------
(* Operations on the converter and on Field. conv and field hold the result *)
(* of the operation performed last; an operation clears the other's result. *)

\* as_sql_type(dtype), then from_sql_type on its result
Convert ==
    \E t \in PyTypes :
        /\ conv' = [dtype |-> t, sql |-> as_sql_type(t),
                    back |-> from_sql_type(as_sql_type(t))]
        /\ field' = NoField
        /\ sop' = NoOp
        /\ UNCHANGED <<schema, evars, cvars, dvars>>

\* from_sql_type on a string a caller or PRAGMA table_info supplies
ParseSql ==
    \E q \in SqlStrings :
        /\ conv' = [dtype |-> "-", sql |-> q, back |-> from_sql_type(q)]
        /\ field' = NoField
        /\ sop' = NoOp
        /\ UNCHANGED <<schema, evars, cvars, dvars>>

\* Field(name, dtype, nullable=, default=, unique=, check=, ref_collection=, ref_field=)
MakeField ==
    \E pkg \in {"fractal", "driz"}, t \in {"int", "timedelta", "list"},
       nullable \in BOOLEAN, unique \in BOOLEAN,
       default \in {"None", "", "0"}, check \in OptStrings,
       rc \in OptStrings, rf \in OptStrings :
        /\ field' = IF pkg = "fractal"
                    THEN FractalField("name", t, nullable, default, unique, check, rc, rf)
                    ELSE DrizField("name", t, nullable, default, unique, check, rc, rf)
        /\ sop' = [op |-> "Field", exc |-> "none", pkg |-> pkg, nullable |-> nullable,
                   unique |-> unique, default |-> default, check |-> check,
                   rc |-> rc, rf |-> rf]
        /\ conv' = NoConv
        /\ UNCHANGED <<schema, evars, cvars, dvars>>

-----------------------------------------------------------------------------
(* Operations on Schema and DB *)

\* Schema(*fields)
NewSchema ==
    \E pkg \in {"fractal", "driz"}, fs \in SeqsUpTo(UserFields, MaxArgs) :
        /\ schema' = [lib |-> pkg,
                      fields |-> IF pkg = "fractal" THEN FractalSchema(fs)
                                                    ELSE DrizSchema(fs)]
        /\ sop' = [op |-> "Schema", exc |-> "none"]
        /\ UNCHANGED <<field, conv, evars, cvars, dvars>>

\* schema.append(*fields)
SchemaAppend ==
    /\ schema.lib # "none"
    /\ \E fs \in SeqsUpTo(UserFields, MaxArgs) :
        /\ Len(schema.fields) + Len(fs) <= MaxFields + 2
        /\ schema' = [schema EXCEPT !.fields =
                          IF schema.lib = "fractal" THEN FractalAppend(@, fs)
                                                    ELSE DrizAppend(@, fs)]
        /\ sop' = [op |-> "append", exc |-> "none"]
        /\ UNCHANGED <<field, conv, evars, cvars, dvars>>

\* DB.collection(name, schema=S) with the list schema client.py iterates
DBCollection ==
    /\ schema.lib = "driz"
    /\ LET r == create_collection(schema.fields, texists, cols)
       IN  /\ texists' = r.texists
           /\ cols' = r.cols
           /\ trace' = r.trace
           /\ sop' = [op |-> "collection", exc |-> r.exc, cols |-> cols]
    /\ UNCHANGED <<schema, field, conv, cvars, dvars>>

\* DB.collection(name): None for a missing table, else the schema is derived
\* from PRAGMA table_info and handed to _create_collection
DBCollectionIntrospect ==
    IF ~texists
    THEN /\ sop' = [op |-> "introspect", exc |-> "none", ret |-> "None"]
         /\ trace' = <<>>
         /\ UNCHANGED <<schema, field, conv, texists, cols, cvars, dvars>>
    ELSE IF \E i \in 1..Len(cols) : from_sql_type(cols[i].type) = "ValueError"
    THEN /\ sop' = [op |-> "introspect", exc |-> "ValueError", ret |-> "-"]
         /\ trace' = <<>>
         /\ UNCHANGED <<schema, field, conv, texists, cols, cvars, dvars>>
    ELSE LET S == IntrospectedSchema(cols)
             r == create_collection(S, texists, cols)
         IN  /\ schema' = [lib |-> "driz", fields |-> S]
             /\ texists' = r.texists
             /\ cols' = r.cols
             /\ trace' = r.trace
             /\ sop' = [op |-> "introspect", exc |-> r.exc, ret |-> "Collection"]
             /\ UNCHANGED <<field, conv, cvars, dvars>>

\* collection.drop(confirm)
DropTable ==
    /\ lib \in {"fractal", "driz"}
    /\ \E confirm \in BOOLEAN :
        LET st == drop(Engine, confirm)
        IN  /\ Apply(st)
            /\ gen' = AfterCalls(st.trace, <<>>)
            /\ returned' = <<>>
            /\ sop' = [op |-> "drop", exc |-> "none"]
            /\ last' = [op |-> "drop", exc |-> st.exc, ret |-> <<confirm>>, arg |-> <<confirm>>]
    /\ UNCHANGED <<schema, field, conv, cvars, lib, tschema, datapage, nkeys>>

-----------------------------------------------------------------------------
(* Specifications *)

\* a fresh database, and a fractal Collection as the handle
Init ==
    /\ InitSchemaSide
    /\ InitEngineSide
    /\ InitCondSide
    /\ InitDataSide
    /\ lib = "fractal"

NextConv == Convert \/ ParseSql \/ MakeField

SpecConv == Init /\ [][NextConv]_vars

NextSchema ==
    NewSchema \/ SchemaAppend \/ DBCollection \/ DBCollectionIntrospect \/ DropTable

SpecSchema == Init /\ [][NextSchema]_vars

NextCond == LeafPredicate \/ Associate \/ Nest

SpecCond == Init /\ [][NextCond]_vars

NextFragment == FragmentLeaf \/ FragmentCompose

SpecFragment == Init /\ [][NextFragment]_vars

InitData == InitSchemaSide /\ InitCondSide /\ InitDataSide /\ InitTable

NextData ==
    \/ Insert \/ TableInsert \/ Fetch \/ Update \/ Delete \/ RemoveField
    \/ DropTable \/ Clear \/ Count \/ OpenCollection
    \/ Distinct \/ OrderBy \/ Aggregate \/ Join \/ QueryWhere
    \/ PagePut \/ PageUpdate \/ PageGet
    \/ StorePage \/ DataPagePut \/ PageQuery

SpecData == InitData /\ [][NextData]_vars

\* an iteration with count, fetch, insert, update and delete between its items
NextIter ==
    \/ IterStart \/ IterNext
    \/ Insert \/ TableInsert \/ Fetch \/ Update \/ Delete \/ Count

SpecIter == InitData /\ [][NextIter]_vars

-----------------------------------------------------------------------------
(* Claims on the converter and on Schema *)

\* C1: for every supported type T (every key of the type table), the round
\* trip from_sql_type(as_sql_type(T)) gives T back, i.e. the table is 1:1.
C1_RoundTrip ==
    conv.dtype \in SupportedTypes => conv.back = conv.dtype

\* C5: field names are unique within a schema, after Schema(*fields), after
\* any append, and for the schema DB.collection(name) derives by introspection.
C5_UniqueNames ==
    schema.lib # "none" => NoDuplicates(NamesOf(schema.fields))

HasImplicit(fields, name, sql_type, constraint) ==
    \E i \in 1..Len(fields) :
        /\ fields[i].name = name
        /\ fields[i].sql_type = sql_type
        /\ constraint \in Range(fields[i].constraints)

\* C6: every schema has a field 'key' of SQL type TEXT with PRIMARY KEY and a
\* field 'timestamp' of SQL type DATETIME with NOT NULL, after Schema(*fields)
\* and after any append.
C6_ImplicitFields ==
    schema.lib # "none" =>
        /\ HasImplicit(schema.fields, "key", "TEXT", "PRIMARY KEY")
        /\ HasImplicit(schema.fields, "timestamp", "DATETIME", "NOT NULL")

-----------------------------------------------------------------------------
(* Claims on Condition *)

LeafKinds == {"=", "!=", "<", "<=", ">", ">=", "LIKE", "IN", "NOT IN", "BETWEEN",
              "IS NULL", "IS NOT NULL"}

CountOf(s, x) == Cardinality({i \in 1..Len(s) : s[i] = x})

\* C3: every leaf predicate, for every argument including None, returns a
\* Condition node holding one comparison clause on the field together with
\* its bound parameter list (one value per placeholder).
C3_LeafIsCondition ==
    \A k \in {"a", "b", "c"} :
        leaf[k].kind # "unset" =>
            /\ leaf[k].kind = "Condition"
            /\ Len(leaf[k].clause) >= 2
            /\ leaf[k].clause[1] = SlotField[k]
            /\ leaf[k].clause[2] \in LeafKinds
            /\ CountOf(leaf[k].clause, "?") = Len(leaf[k].values)

StripParens(clause) == SelectSeq(clause, LAMBDA t : t \notin {"(", ")"})

\* the nesting depth after each token never drops below 0 and ends at 0
RECURSIVE Depth(_, _)
Depth(clause, n) ==
    IF n = 0 THEN 0
    ELSE Depth(clause, n - 1) + (IF clause[n] = "(" THEN 1
                                 ELSE IF clause[n] = ")" THEN -1 ELSE 0)

Balanced(clause) ==
    /\ \A n \in 1..Len(clause) : Depth(clause, n) >= 0
    /\ Depth(clause, Len(clause)) = 0

\* C4: (a op b) op c and a op (b op c) hold the same parameter list in the
\* same order and clauses that are equal once parentheses are removed, each
\* clause with balanced parentheses, for op = & and for op = |.
C4_Associative ==
    comp.op # "-" =>
        /\ comp.lhs.values = comp.rhs.values
        /\ StripParens(comp.lhs.clause) = StripParens(comp.rhs.clause)
        /\ Balanced(comp.lhs.clause)
        /\ Balanced(comp.rhs.clause)

\* both groupings were composed from leaves that bind values, and the two
\* clauses differ in their parentheses
C4_Witness ==
    /\ comp.op = "AND"
    /\ comp.lhs.clause # comp.rhs.clause
    /\ Len(comp.lhs.values) >= 4
    /\ "IN" \in Range(comp.lhs.clause)

-----------------------------------------------------------------------------
(* Claims on insert and fetch *)

\* every entry of rec names a field of the schema and holds a value of its type
WellTyped(fields, rec) ==
    \A i \in 1..Len(rec) :
        /\ HasField(fields, rec[i].name)
        /\ as_sql_type(rec[i].value.t) = resolve_field_type(fields, rec[i].name)

\* C2: for a well-typed record r accepted by insert, which returned {k: r'},
\* a following fetch(k) with no delete, update, remove_field or drop in
\* between returns a map with exactly the fields and values of r'.
C2_RoundTrip ==
    (last.op = "fetch" /\ last.exc = "none") =>
        \A i \in 1..Len(returned) :
            (ValueIn(returned[i], "key") = last.arg[1] /\ WellTyped(tschema, returned[i]))
                => DictEq(last.ret, returned[i])

CountBad(fields, rec) == Len(rec) # Len(fields)

UnknownName(fields, rec) == \E i \in 1..Len(rec) : ~HasField(fields, rec[i].name)

TypeBad(fields, rec) ==
    \E i \in 1..Len(rec) :
        /\ HasField(fields, rec[i].name)
        /\ as_sql_type(rec[i].value.t) # resolve_field_type(fields, rec[i].name)

\* C7: driz Collection.insert and Table.insert raise ValueError for a record
\* whose field count differs from the schema's or that names a field not in
\* the schema, TypeError for a value whose type maps to another SQL type than
\* the field's (either of the two when a call breaks both rules); whenever a
\* record of the call is rejected no statement is sent to the engine.
C7_InsertValidation ==
    (last.op = "insert" /\ lib \in {"driz", "table"}) =>
        LET recs == Range(last.arg)
            shape == \E r \in recs : CountBad(tschema, r) \/ UnknownName(tschema, r)
            type == \E r \in recs : TypeBad(tschema, r)
        IN  /\ (shape /\ ~type) => last.exc = "ValueError"
            /\ (type /\ ~shape) => last.exc = "TypeError"
            /\ (shape \/ type) => (last.exc \in {"ValueError", "TypeError"} /\ trace = <<>>)

-----------------------------------------------------------------------------
(* Claims on update, on field names and on commits *)

UnknownIn(fields, data) == \E i \in 1..Len(data) : ~HasField(fields, data[i].name)

MistypedIn(fields, data) ==
    \E i \in 1..Len(data) :
        /\ HasField(fields, data[i].name)
        /\ as_sql_type(data[i].value.t) # resolve_field_type(fields, data[i].name)

\* the rows with that key hold the values of data
HoldsValues(key, data) ==
    \A i \in 1..Len(rows) :
        rows[i]["key"] = Adapt(key) =>
            \A j \in 1..Len(data) :
                /\ data[j].name \in DOMAIN rows[i]
                /\ PyEq(rows[i][data[j].name], data[j].value)

\* C8: driz Collection.update(key, **data) raises ValueError when data names
\* a field not in the schema and TypeError when a value's type does not match
\* the field's SQL type, leaving the records unchanged; when every name and
\* type matches it raises nothing and the record with that key holds the new
\* values.
C8_UpdateValidation ==
    (last.op = "update" /\ lib = "driz") =>
        LET key == last.arg[1]
            data == last.arg[2]
            unknown == UnknownIn(tschema, data)
            mistyped == MistypedIn(tschema, data)
        IN  /\ (unknown /\ ~mistyped) => (last.exc = "ValueError" /\ rows = last.before)
            /\ (mistyped /\ ~unknown) => (last.exc = "TypeError" /\ rows = last.before)
            /\ (~unknown /\ ~mistyped) => (last.exc = "none" /\ HoldsValues(key, data))

FieldNameOps ==
    {"insert", "update", "distinct", "order_by", "avg", "sum", "min", "max", "join",
     "remove_field", "query"}

\* C9: no Collection operation that takes field names from the caller sends
\* the engine a statement holding a field name that is not a field of the
\* collection's schema.
C9_NamesResolved ==
    (lib \in {"fractal", "driz"} /\ last.op \in FieldNameOps) =>
        \A i \in 1..Len(trace) : trace[i].names \subseteq Range(NamesOf(tschema))

\* a mutating statement the engine accepted
Accepted(c) == c.kind \in MutatingKinds /\ c.ok

-----------------------------------------------------------------------------
(* Claims on the results of insert, update, clear, remove_field *)

\* C11: Collection.insert(r1..rn) that returns has given every record a
\* freshly generated key (whatever 'key' the caller supplied) and returns a
\* map with exactly n entries keyed by those keys; count() has grown by
\* exactly n and every record that was there before is still there, unchanged.
C11_InsertResult ==
    (last.op = "insert" /\ last.exc = "none" /\ lib \in {"fractal", "driz"}) =>
        LET n == Len(last.arg)
            fresh == {KeyOf(k) : k \in (nkeys - n + 1)..nkeys}
        IN  /\ Len(last.ret) = n
            /\ {ValueIn(last.ret[i], "key") : i \in 1..Len(last.ret)} = fresh
            /\ count(Engine).ret = Len(last.before) + n
            /\ \A i \in 1..Len(last.before) : \E j \in 1..Len(rows) : rows[j] = last.before[i]

\* C12: fractal Collection.update(key, **data) that returns has changed only
\* the record with that key and only the fields named in data: fetch(key)
\* returns the old record with the fields of data replaced, every other
\* record is unchanged, and with no record of that key the table is unchanged
\* and no record is created.
C12_UpdateIsolation ==
    (last.op = "update" /\ lib = "fractal" /\ last.exc = "none") =>
        LET key == last.arg[1]
            data == last.arg[2]
            hit == {i \in 1..Len(last.before) : last.before[i]["key"] = Adapt(key)}
        IN  /\ Len(rows) = Len(last.before)
            /\ \A i \in 1..Len(last.before) : i \notin hit => rows[i] = last.before[i]
            /\ hit = {} => rows = last.before
            /\ \A i \in hit :
                  DictEq(fetch(Engine, key).ret,
                         DictSetAll(RowAsDict(cols, last.before[i]), data))

\* C13: Collection.clear() returns and has removed every record: count() is
\* 0, all() is empty, and the table still exists with its columns.
C13_ClearEmpties ==
    last.op = "clear" =>
        /\ last.exc = "none"
        /\ count(Engine).ret = 0
        /\ rows = <<>>
        /\ texists
        /\ cols # <<>>

-----------------------------------------------------------------------------
(* Claims on DB.collection *)

\* C15: DB.collection(name, schema=S) returns, having created the table when
\* there was none and otherwise kept every column there was; afterwards every
\* field of S is a column of the table, and the same call made again changes
\* nothing.
C15_CollectionIdempotent ==
    sop.op = "collection" =>
        LET again == create_collection(schema.fields, texists, cols)
        IN  /\ sop.exc = "none"
            /\ texists
            /\ \A i \in 1..Len(schema.fields) : schema.fields[i].name \in ColNames(cols)
            /\ ColNames(sop.cols) \subseteq ColNames(cols)
            /\ again.exc = "none"
            /\ again.cols = cols

-----------------------------------------------------------------------------
(* Claims on the pages of a KVStore *)

\* the ids of the rows of a page
PageIds(rs) == {rs[i].id : i \in 1..Len(rs)}

\* every entry of d is an entry of the map m
Contains(m, d) ==
    \A i \in 1..Len(d) : \E j \in 1..Len(m) :
        m[j].name = d[i].name /\ PyEq(m[j].value, d[i].value)

JsonNative(d) ==
    \A i \in 1..Len(d) : d[i].value.t \in {"int", "float", "bool", "str", "NoneType", "list"}

C17_UpdateMerges ==
    last.op = "page_update" =>
        LET key == last.arg[1]
            d == last.arg[2]
            id == last.ret[1]
            i == PageRow([rows |-> last.before], key)
            got == page_get(Engine, id)
        IN  /\ last.exc = "none"
            /\ id = key
            /\ got.found
            /\ Contains(got.ret, d)
            /\ i # 0 =>
                  /\ Len(rows) = Len(last.before)
                  /\ DictEq(got.ret, DictSetAll(json_loads(last.before[i].data), d))

\* C18: Page.query_by_conditions(conditions) on the page returns exactly the
\* rows of that page whose data satisfy every condition, in particular no row
\* of another page of the store.
C18_QueryOwnPage ==
    last.op = "query" =>
        LET own == SelectSeq(rows, LAMBDA r : Satisfies(r, last.arg[1]))
        IN  /\ last.exc = "none"
            /\ last.ret = [i \in 1..Len(own) |-> [id |-> own[i].id, data |-> json_loads(own[i].data)]]

-----------------------------------------------------------------------------
(* Claims on Field and on the type mapping *)

\* C19: the constraints of a Field reflect each option on its own: UNIQUE iff
\* unique, NOT NULL iff not nullable, DEFAULT <v> iff default is not None,
\* CHECK (<c>) iff check is given, REFERENCES <coll>(<field>) iff
\* ref_collection and ref_field are both given.
C19_IndependentOptions ==
    sop.op = "Field" =>
        LET cs == Range(field.constraints)
            cascade == IF sop.pkg = "fractal" THEN " ON DELETE CASCADE" ELSE ""
        IN  /\ "UNIQUE" \in cs <=> sop.unique
            /\ "NOT NULL" \in cs <=> ~sop.nullable
            /\ ("DEFAULT " \o sop.default) \in cs <=> sop.default # "None"
            /\ ("CHECK (" \o sop.check \o ")") \in cs <=> Truthy(sop.check)
            /\ ("REFERENCES " \o sop.rc \o "(" \o sop.rf \o ")" \o cascade) \in cs
                   <=> (Truthy(sop.rc) /\ Truthy(sop.rf))

\* the storage classes of the table
SqlValues == {SQLEquivalentTypes[i][2] : i \in 1..Len(SQLEquivalentTypes)}

\* C20: as_sql_type gives a storage class for every type, "UNKNOWN" exactly
\* for a type outside the table; from_sql_type raises ValueError exactly for
\* a string that is no value of the table, "UNKNOWN" included, and gives a key
\* of the table for a string that is.
C20_TotalPartial ==
    /\ conv.dtype # "-" =>
          /\ conv.sql \in SqlValues \cup {"UNKNOWN"}
          /\ conv.sql = "UNKNOWN" <=> conv.dtype \notin SupportedTypes
    /\ conv.sql # "-" =>
          /\ conv.back = "ValueError" <=> conv.sql \notin SqlValues
          /\ conv.sql \in SqlValues =>
                /\ conv.back \in SupportedTypes
                /\ as_sql_type(conv.back) = conv.sql
    /\ "UNKNOWN" \notin SqlValues

\* a type outside the table was converted, and from_sql_type raised on the result
C20_Witness ==
    /\ conv.dtype \in OtherTypes
    /\ conv.sql = "UNKNOWN"
    /\ conv.back = "ValueError"

-----------------------------------------------------------------------------
(* Claims on the composition of conditions.  The engine reads a clause with *)
(* its operator precedence: a comparison binds tighter than NOT, NOT        *)
(* tighter than AND, AND tighter than OR.                                   *)

\* the position after the comparison that starts at p with a column name
AtomEnd(cl, p) ==
    IF p + 1 > Len(cl) THEN Len(cl) + 2
    ELSE IF cl[p + 1] \in {"IS NULL", "IS NOT NULL"} THEN p + 2
    ELSE IF cl[p + 1] = "BETWEEN" THEN p + 5
    ELSE IF cl[p + 1] \in {"IN", "NOT IN"}
         THEN IF \E j \in (p + 2)..Len(cl) : cl[j] = ")"
              THEN 1 + CHOOSE j \in (p + 2)..Len(cl) :
                           cl[j] = ")" /\ \A i \in (p + 2)..(j - 1) : cl[i] # ")"
              ELSE Len(cl) + 2
    ELSE p + 3

RECURSIVE SqlOr(_, _, _), SqlAnd(_, _, _), SqlNot(_, _, _)

\* NOT <factor>, ( <expression> ) or a comparison, read from position p;
\* truth gives the truth value of the comparison on each column
SqlNot(cl, p, truth) ==
    IF p > Len(cl) THEN [v |-> FALSE, p |-> Len(cl) + 2]
    ELSE IF cl[p] = "NOT"
         THEN LET f == SqlNot(cl, p + 1, truth) IN [v |-> ~f.v, p |-> f.p]
    ELSE IF cl[p] = "("
         THEN LET e == SqlOr(cl, p + 1, truth)
              IN  IF e.p <= Len(cl) /\ cl[e.p] = ")" THEN [v |-> e.v, p |-> e.p + 1]
                                                    ELSE [v |-> FALSE, p |-> Len(cl) + 2]
    ELSE IF cl[p] \in DOMAIN truth THEN [v |-> truth[cl[p]], p |-> AtomEnd(cl, p)]
    ELSE [v |-> FALSE, p |-> Len(cl) + 2]

\* <factor> AND <factor> AND ...
SqlAnd(cl, p, truth) ==
    LET l == SqlNot(cl, p, truth)
    IN  IF l.p <= Len(cl) /\ cl[l.p] = "AND"
        THEN LET r == SqlAnd(cl, l.p + 1, truth) IN [v |-> l.v /\ r.v, p |-> r.p]
        ELSE l

\* <term> OR <term> OR ...
SqlOr(cl, p, truth) ==
    LET l == SqlAnd(cl, p, truth)
    IN  IF l.p <= Len(cl) /\ cl[l.p] = "OR"
        THEN LET r == SqlOr(cl, l.p + 1, truth) IN [v |-> l.v \/ r.v, p |-> r.p]
        ELSE l

\* the clause is one expression from its first token to its last
WellFormed(cl) ==
    SqlOr(cl, 1, [f \in {"x", "y", "z"} |-> TRUE]).p = Len(cl) + 1

\* the truth value of the clause as the engine reads it
SqlTruth(cl, truth) == SqlOr(cl, 1, truth).v

\* the truth value of p op q
Connective(op, p, q) == IF op = "AND" THEN p /\ q ELSE p \/ q

\* the operators of the composition held in comp: inner-left, then the other
FirstOp == IF comp.op \in {"AND", "AND OR"} THEN "AND" ELSE "OR"

SecondOp == IF comp.op \in {"AND", "OR AND"} THEN "AND" ELSE "OR"

Wrapped(cl) == Len(cl) >= 2 /\ cl[1] = "(" /\ cl[Len(cl)] = ")"

\* C21: a clause composed by & and | is wrapped in parentheses, and for
\* every truth assignment to the leaves, read with the engine's precedence,
\* it has the truth value of the composition tree: (a op1 b) op2 c and
\* a op1 (b op2 c).
C21_TreePreserved ==
    comp.op # "-" =>
        /\ Wrapped(comp.lhs.clause) /\ WellFormed(comp.lhs.clause)
        /\ Wrapped(comp.rhs.clause) /\ WellFormed(comp.rhs.clause)
        /\ \A truth \in [{"x", "y", "z"} -> BOOLEAN] :
              /\ SqlTruth(comp.lhs.clause, truth)
                    = Connective(SecondOp, Connective(FirstOp, truth.x, truth.y), truth.z)
              /\ SqlTruth(comp.rhs.clause, truth)
                    = Connective(FirstOp, truth.x, Connective(SecondOp, truth.y, truth.z))

\* (a | b) & c was composed from a BETWEEN leaf, an IN leaf and a comparison
C21_Witness ==
    /\ comp.op = "OR AND"
    /\ "BETWEEN" \in Range(comp.lhs.clause)
    /\ "IN" \in Range(comp.lhs.clause)
    /\ Len(comp.lhs.values) >= 4

\* for each placeholder of the clause, from the left, the column of the
\* comparison it stands in
RECURSIVE Owners(_, _)
Owners(cl, cur) ==
    IF cl = <<>> THEN <<>>
    ELSE IF Head(cl) \in {"x", "y", "z"} THEN Owners(Tail(cl), Head(cl))
    ELSE IF Head(cl) = "?" THEN <<cur>> \o Owners(Tail(cl), cur)
    ELSE Owners(Tail(cl), cur)

\* for each value the leaves a, b, c contributed, in that order, its leaf's column
ValueOwners ==
    [i \in 1..Len(leaf.a.values) |-> "x"] \o [i \in 1..Len(leaf.b.values) |-> "y"]
        \o [i \in 1..Len(leaf.c.values) |-> "z"]

Aligned(c) ==
    /\ CountOf(c.clause, "?") = Len(c.values)
    /\ c.values = leaf.a.values \o leaf.b.values \o leaf.c.values
    /\ Owners(c.clause, "-") = ValueOwners

\* C22: a composed Condition holds one clause and one parameter list with as
\* many placeholders as values, and the i-th placeholder from the left stands
\* in the comparison of the leaf that contributed the i-th value.
C22_PlaceholdersAligned ==
    comp.op # "-" => (Aligned(comp.lhs) /\ Aligned(comp.rhs))

\* a composition whose leaves contribute two, one and no value
C22_Witness ==
    /\ comp.op # "-"
    /\ Len(leaf.a.values) = 2
    /\ Len(leaf.b.values) = 1
    /\ Len(leaf.c.values) = 0
    /\ comp.lhs.values # <<"1", "1", "1">>

\* C23: for every truth assignment to the fragments a, b, c, read with the
\* engine's precedence, negate(either(a, b)) is true exactly when neither a
\* nor b holds, and both(either(a, b), c) exactly when (a or b) and c.
C23_FragmentsNest ==
    comp.op = "driz" =>
        /\ WellFormed(comp.lhs.clause)
        /\ WellFormed(comp.rhs.clause)
        /\ \A truth \in [{"x", "y", "z"} -> BOOLEAN] :
              /\ SqlTruth(comp.lhs.clause, truth) = ~(truth.x \/ truth.y)
              /\ SqlTruth(comp.rhs.clause, truth) = ((truth.x \/ truth.y) /\ truth.z)

-----------------------------------------------------------------------------
(* Claims on iteration and on a rejected batch *)

\* C24: every item an iteration yields is the map from the table's column
\* names to the values of a row that was present when the iteration started,
\* and the iteration raises nothing but its end, whatever was called on the
\* same object between two items.
C24_IterationIsolated ==
    last.op = "next" =>
        /\ last.exc \in {"none", "StopIteration"}
        /\ last.exc = "none" => DictEq(last.ret, last.arg)

\* C25: when insert is given several records and raises because the engine
\* rejected one of them, no record of the batch is visible to a read on the
\* connection, and none is left in the transaction for a later commit to
\* make durable.
C25_AllOrNothing ==
    (last.op = "insert" /\ lib \in {"fractal", "driz"} /\ Len(last.arg) >= 2
        /\ last.exc \in {"OperationalError", "ProgrammingError", "IntegrityError"}) =>
        /\ rows = last.before
        /\ pending = 0

====
